---- MODULE Spec2Model ----
(***************************************************************************)
(* Model of the listing data model of undervalued-house-finder:           *)
(*   models/listing.py  Listing.add_price_record, Listing.add_auction_record *)
(*   models/events.py   EventTimeline                                      *)
(*   models/enums.py    ListingStatus, PropertyType, EventType             *)
(* Several Listing objects share one EventTimeline object.  Every call of  *)
(* a mutator is one step; a call that raises keeps the assignments made    *)
(* before the raising statement, as the Python code does.                  *)
(***************************************************************************)
EXTENDS Integers, Sequences, FiniteSets, Bags, TLC

(* ---------------- bounds of the model ---------------- *)
\* calls of either mutator in a behaviour of Spec
MaxCalls == 2
\* calls of add_price_record in a behaviour of SpecPrice
MaxPriceCalls == 3
\* calls of add_auction_record in a behaviour of SpecAuction
MaxAuctionCalls == 2
\* prices range over -1..MaxPrice
MaxPrice == 1
\* datetimes (record timestamps and auction dates) range over 1..MaxTime
MaxTime == 2
\* direct calls of EventTimeline.add_event in a behaviour of SpecTimeline
MaxAdds == 3
\* the limit argument of a query ranges over -1..MaxLimit
MaxLimit == 3
\* direct calls of EventTimeline.add_event in a behaviour of SpecQuery
MaxQueryAdds == 2
\* an argument of PropertyType.from_string is made of up to MaxWords words
MaxWords == 2

(* Optional[T]: None is the empty tuple, a value v is the 1-tuple <<v>>. *)
None == <<>>
Some(v) == <<v>>
Val(o) == o[1]

ListingIds == {"123", "456"}
\* Decimal prices; add_price_record takes any Decimal, negatives included.
Prices == (-1)..MaxPrice
\* datetime values, as points on a time axis: the timestamp of a record
\* (passed by the caller, or datetime.utcnow() when omitted) and the
\* auction date
Timestamps == 1..MaxTime
Datetimes == 1..MaxTime
Notes == {None, Some("Auction cancelled")}

(* enums.py: the members of ListingStatus and their values *)
ListingStatus ==
  {"SCHEDULED", "CANCELLED", "VOIDED", "SOLD", "WITHDRAWN", "ACTIVE",
   "UNDER_OFFER", "UNKNOWN"}

ListingStatusValue ==
  [SCHEDULED |-> "scheduled", CANCELLED |-> "cancelled", VOIDED |-> "voided",
   SOLD |-> "sold", WITHDRAWN |-> "withdrawn", ACTIVE |-> "active",
   UNDER_OFFER |-> "under_offer", UNKNOWN |-> "unknown"]

\* ListingStatus.__str__
StatusStr(s) == ListingStatusValue[s]

\* str(Decimal) of an integral amount
DecimalStr(d) == ToString(d)

\* datetime.isoformat(): an injective rendering of the time point
IsoFormat(d) == "T" \o ToString(d)

(* ---------------- enums.py: PropertyType ---------------- *)
\* A str is the sequence of its characters.
PropertyType ==
  {"HOUSE", "UNIT", "APARTMENT", "TOWNHOUSE", "VILLA", "LAND", "STUDIO",
   "OTHER"}

\* the value of each member
PropertyTypeValue ==
  [t \in PropertyType |->
     CASE t = "HOUSE" -> <<"h", "o", "u", "s", "e">>
       [] t = "UNIT" -> <<"u", "n", "i", "t">>
       [] t = "APARTMENT" -> <<"a", "p", "a", "r", "t", "m", "e", "n", "t">>
       [] t = "TOWNHOUSE" -> <<"t", "o", "w", "n", "h", "o", "u", "s", "e">>
       [] t = "VILLA" -> <<"v", "i", "l", "l", "a">>
       [] t = "LAND" -> <<"l", "a", "n", "d">>
       [] t = "STUDIO" -> <<"s", "t", "u", "d", "i", "o">>
       [] t = "OTHER" -> <<"o", "t", "h", "e", "r">>]

\* str.lower() on ASCII letters
LowerCase ==
  [A |-> "a", B |-> "b", C |-> "c", D |-> "d", E |-> "e", F |-> "f",
   G |-> "g", H |-> "h", I |-> "i", J |-> "j", K |-> "k", L |-> "l",
   M |-> "m", N |-> "n", O |-> "o", P |-> "p", Q |-> "q", R |-> "r",
   S |-> "s", T |-> "t", U |-> "u", V |-> "v", W |-> "w", X |-> "x",
   Y |-> "y", Z |-> "z"]

LowerChar(c) == IF c \in DOMAIN LowerCase THEN LowerCase[c] ELSE c

\* mutant: the letter case is kept
Lower_Kept(value) == value

Lower(value) == [i \in 1..Len(value) |-> LowerChar(value[i])]

Whitespace == {" ", "\t", "\n"}

\* str.strip()
RECURSIVE Strip(_)
Strip(value) ==
  IF value = <<>> THEN <<>>
  ELSE IF value[1] \in Whitespace THEN Strip(Tail(value))
  ELSE IF value[Len(value)] \in Whitespace
       THEN Strip(SubSeq(value, 1, Len(value) - 1))
  ELSE value

\* keyword in value
Contains(value, keyword) ==
  \E i \in 0..(Len(value) - Len(keyword)) :
    SubSeq(value, i + 1, i + Len(keyword)) = keyword

Keyword_house == <<"h", "o", "u", "s", "e">>
Keyword_unit == <<"u", "n", "i", "t">>
Keyword_flat == <<"f", "l", "a", "t">>
Keyword_apartment == <<"a", "p", "a", "r", "t", "m", "e", "n", "t">>
Keyword_townhouse == <<"t", "o", "w", "n", "h", "o", "u", "s", "e">>
Keyword_town_house == <<"t", "o", "w", "n", " ", "h", "o", "u", "s", "e">>
Keyword_villa == <<"v", "i", "l", "l", "a">>
Keyword_land == <<"l", "a", "n", "d">>
Keyword_studio == <<"s", "t", "u", "d", "i", "o">>

\* PropertyType.from_string: the if/elif chain
from_string(value) ==
  IF value = <<>> THEN "OTHER"
  ELSE LET value_lower == Strip(Lower(value))
       IN  IF Contains(value_lower, Keyword_house)
           THEN "HOUSE"
           ELSE IF Contains(value_lower, Keyword_unit)
                   \/ Contains(value_lower, Keyword_flat)
           THEN "UNIT"
           ELSE IF Contains(value_lower, Keyword_apartment)
           THEN "APARTMENT"
           ELSE IF Contains(value_lower, Keyword_townhouse)
                   \/ Contains(value_lower, Keyword_town_house)
           THEN "TOWNHOUSE"
           ELSE IF Contains(value_lower, Keyword_villa)
           THEN "VILLA"
           ELSE IF Contains(value_lower, Keyword_land)
           THEN "LAND"
           ELSE IF Contains(value_lower, Keyword_studio)
           THEN "STUDIO"
           ELSE "OTHER"

\* arguments of from_string: the words that listings are labelled with
Word_House == <<"H", "o", "u", "s", "e">>
Word_Unit == <<"u", "n", "i", "t">>
Word_Flat == <<"F", "L", "A", "T">>
Word_Apartment == <<"A", "p", "a", "r", "t", "m", "e", "n", "t">>
Word_Townhouse == <<"T", "o", "w", "n", "h", "o", "u", "s", "e">>
Word_TownHouse2 == <<"T", "o", "w", "n", " ", "H", "o", "u", "s", "e">>
Word_Villa == <<"V", "I", "L", "L", "A">>
Word_Land == <<"l", "a", "n", "d">>
Word_Studio == <<"S", "t", "u", "d", "i", "o">>
Word_Other == <<"O", "t", "h", "e", "r">>
Word_Unknown == <<"U", "n", "k", "n", "o", "w", "n", " ", "T", "y", "p", "e">>
Word_Slash == <<" ", "/", " ">>
Word_Blank == <<" ">>
Words ==
  {Word_House, Word_Unit, Word_Flat, Word_Apartment,
   Word_Townhouse, Word_TownHouse2, Word_Villa, Word_Land,
   Word_Studio, Word_Other, Word_Unknown, Word_Slash,
   Word_Blank}

RECURSIVE Phrases(_)
Phrases(n) ==
  IF n = 0 THEN {<<>>}
  ELSE LET shorter == Phrases(n - 1)
       IN  shorter \cup {p \o w : p \in shorter, w \in Words}

\* "Apartment / Unit / Flat"
ApartmentUnitFlat ==
  Word_Apartment \o Word_Slash \o Word_Unit \o Word_Slash \o Word_Flat

Values == Phrases(MaxWords) \cup {ApartmentUnitFlat}

(* ---------------- list.sort(key=timestamp, reverse=True) ---------------- *)
\* Python's sort is stable, also with reverse=True: records with equal
\* timestamps keep their relative order.
RECURSIVE InsertDesc(_, _)
InsertDesc(s, e) ==
  IF s = <<>> THEN <<e>>
  ELSE IF s[Len(s)].timestamp >= e.timestamp THEN Append(s, e)
  ELSE Append(InsertDesc(SubSeq(s, 1, Len(s) - 1), e), s[Len(s)])

\* mutant: the list is left in insertion order
SortByTimestampDesc_Unsorted(s) == s

RECURSIVE SortByTimestampDesc(_)
SortByTimestampDesc(s) ==
  IF s = <<>> THEN <<>>
  ELSE InsertDesc(SortByTimestampDesc(SubSeq(s, 1, Len(s) - 1)), s[Len(s)])

(* ---------------- EventTimeline.add_event ---------------- *)
\* the members of EventType that the package uses
EventTypes ==
  {"PRICE_DROPPED", "AUCTION_CANCELLED", "AUCTION_VOIDED",
   "AUCTION_RESCHEDULED"}

\* metadata arguments of add_event: omitted, or a mapping
Metadatas == {None, Some([old_price |-> "800000", new_price |-> "750000"])}

\* mutant: the metadata argument is not stored
DefaultMetadata_Dropped(metadata) == <<>>

\* if metadata is None: metadata = {}
DefaultMetadata(metadata) == IF metadata = None THEN <<>> ELSE Val(metadata)

\* mutant: the event is stamped with the time of logging, not the given one
Event_StampedNow(event_type, timestamp, listing_id, metadata) ==
  [event_type |-> event_type, timestamp |-> MaxTime,
   listing_id |-> listing_id, metadata |-> metadata]

Event(event_type, timestamp, listing_id, metadata) ==
  [event_type |-> event_type, timestamp |-> timestamp,
   listing_id |-> listing_id, metadata |-> metadata]

\* mutant: the event is appended to the global list twice
AddEventGlobal_Twice(evs, e) ==
  SortByTimestampDesc(Append(Append(evs, e), e))

\* the global list after add_event
AddEventGlobal(evs, e) == SortByTimestampDesc(Append(evs, e))

\* mutant: the event is put at the head of the listing's list before the sort
AddEventIndex_Prepend(idx, e) ==
  LET old == IF e.listing_id \in DOMAIN idx THEN idx[e.listing_id] ELSE <<>>
  IN  [k \in (DOMAIN idx) \cup {e.listing_id} |->
         IF k = e.listing_id THEN SortByTimestampDesc(<<e>> \o old)
         ELSE idx[k]]

\* mutant: the per-listing list is left in insertion order
AddEventIndex_Unsorted(idx, e) ==
  LET old == IF e.listing_id \in DOMAIN idx THEN idx[e.listing_id] ELSE <<>>
  IN  [k \in (DOMAIN idx) \cup {e.listing_id} |->
         IF k = e.listing_id THEN Append(old, e) ELSE idx[k]]

\* the per-listing index after add_event
AddEventIndex(idx, e) ==
  LET old == IF e.listing_id \in DOMAIN idx THEN idx[e.listing_id] ELSE <<>>
  IN  [k \in (DOMAIN idx) \cup {e.listing_id} |->
         IF k = e.listing_id THEN SortByTimestampDesc(Append(old, e))
         ELSE idx[k]]

(* ---------------- Listing.add_price_record ---------------- *)
price_dropped(current_price, price) ==
  current_price /= None /\ price < Val(current_price)

\* mutant: previous_price is never taken from current_price
NewPreviousPrice_Stale(current_price, previous_price) == previous_price

NewPreviousPrice(current_price, previous_price) ==
  IF current_price /= None THEN current_price ELSE previous_price

\* PriceHistory.source: Optional[str]
Sources == {None, Some("domain")}

PriceHistory(price, timestamp) ==
  [price |-> price, timestamp |-> timestamp, source |-> None]

\* Decimal division under the default context traps a zero divisor.
PriceDropRaises(previous_price) == previous_price = 0

\* drop_percent is float(amount / previous * 100); kept as the exact
\* fraction <<numerator, denominator>>.
PriceDropMetadata(previous_price, price) ==
  LET price_drop_amount == previous_price - price
  IN  [old_price |-> DecimalStr(previous_price),
       new_price |-> DecimalStr(price),
       drop_amount |-> DecimalStr(price_drop_amount),
       drop_percent |-> <<price_drop_amount * 100, previous_price>>]

(* ---------------- Listing.add_auction_record ---------------- *)
\* mutant: only the first scheduled datetime is stored
NewAuctionDatetime_OnlyFirst(status, stored, auction_datetime) ==
  IF status = "SCHEDULED" /\ stored = None
  THEN Some(auction_datetime)
  ELSE stored

\* mutant: a scheduled record always overwrites the stored datetime
NewAuctionDatetime_Overwrite(status, stored, auction_datetime) ==
  IF status = "SCHEDULED" THEN Some(auction_datetime) ELSE stored

\* mutant: the status of the record is not looked at
NewAuctionDatetime_AnyStatus(status, stored, auction_datetime) ==
  IF stored = None \/ auction_datetime > Val(stored)
  THEN Some(auction_datetime)
  ELSE stored

NewAuctionDatetime(status, stored, auction_datetime) ==
  IF status = "SCHEDULED"
     /\ (stored = None \/ auction_datetime > Val(stored))
  THEN Some(auction_datetime)
  ELSE stored

\* mutant: the notes are not passed on to the record
AuctionHistory_NoNotes(auction_datetime, status, timestamp, notes) ==
  [auction_datetime |-> auction_datetime, status |-> status,
   timestamp |-> timestamp, notes |-> None]

AuctionHistory(auction_datetime, status, timestamp, notes) ==
  [auction_datetime |-> auction_datetime, status |-> status,
   timestamp |-> timestamp, notes |-> notes]

\* mutant: a cancellation is logged only when an auction date was stored
AuctionEventType_CancelNeedsDate(status, previous_auction_datetime, auction_datetime) ==
  IF status = "CANCELLED" /\ previous_auction_datetime /= None
  THEN Some("AUCTION_CANCELLED")
  ELSE IF status = "VOIDED" THEN Some("AUCTION_VOIDED")
  ELSE IF status = "SCHEDULED"
          /\ previous_auction_datetime /= None
          /\ auction_datetime /= Val(previous_auction_datetime)
  THEN Some("AUCTION_RESCHEDULED")
  ELSE None

\* mutant: a reschedule is logged only when the stored datetime advances
AuctionEventType_OnlyLater(status, previous_auction_datetime, auction_datetime) ==
  IF status = "CANCELLED" THEN Some("AUCTION_CANCELLED")
  ELSE IF status = "VOIDED" THEN Some("AUCTION_VOIDED")
  ELSE IF status = "SCHEDULED"
          /\ previous_auction_datetime /= None
          /\ auction_datetime > Val(previous_auction_datetime)
  THEN Some("AUCTION_RESCHEDULED")
  ELSE None

\* mutant: the incoming datetime is not compared with the stored one
AuctionEventType_NoCompare(status, previous_auction_datetime, auction_datetime) ==
  IF status = "CANCELLED" THEN Some("AUCTION_CANCELLED")
  ELSE IF status = "VOIDED" THEN Some("AUCTION_VOIDED")
  ELSE IF status = "SCHEDULED" /\ previous_auction_datetime /= None
  THEN Some("AUCTION_RESCHEDULED")
  ELSE None

\* the if/elif chain of the event logging: the event type, or None
AuctionEventType(status, previous_auction_datetime, auction_datetime) ==
  IF status = "CANCELLED" THEN Some("AUCTION_CANCELLED")
  ELSE IF status = "VOIDED" THEN Some("AUCTION_VOIDED")
  ELSE IF status = "SCHEDULED"
          /\ previous_auction_datetime /= None
          /\ auction_datetime /= Val(previous_auction_datetime)
  THEN Some("AUCTION_RESCHEDULED")
  ELSE None

\* mutant: the two datetimes of a reschedule are swapped
AuctionEventMetadata_Swapped(event_type, previous_status, previous_auction_datetime, auction_datetime, notes) ==
  IF event_type = "AUCTION_RESCHEDULED"
  THEN [old_auction_datetime |-> IsoFormat(auction_datetime),
        new_auction_datetime |-> IsoFormat(Val(previous_auction_datetime)),
        notes |-> notes]
  ELSE [previous_status |-> StatusStr(previous_status),
        auction_datetime |-> IsoFormat(auction_datetime),
        notes |-> notes]

AuctionEventMetadata(event_type, previous_status, previous_auction_datetime, auction_datetime, notes) ==
  IF event_type = "AUCTION_RESCHEDULED"
  THEN [old_auction_datetime |-> IsoFormat(Val(previous_auction_datetime)),
        new_auction_datetime |-> IsoFormat(auction_datetime),
        notes |-> notes]
  ELSE [previous_status |-> StatusStr(previous_status),
        auction_datetime |-> IsoFormat(auction_datetime),
        notes |-> notes]

(* ---------------- state ---------------- *)
\* listings: the Listing objects; events, events_by_listing: the fields
\* _events and _events_by_listing of the one EventTimeline they share;
\* calls: mutator calls made; price_calls: add_price_record calls made per
\* listing; last: the latest call, its arguments, how it ended and the
\* state it started from; added: the events handed to the timeline since
\* its construction or its last clear(), as a bag; parse: an argument of
\* PropertyType.from_string and, once the call has returned, its result;
\* in_order: per listing, whether every add_price_record call so far came
\* with a timestamp later than all the timestamps recorded before it.
\* held: the list that a caller got from get_events_for_listing or
\* get_all_events and keeps: what it contained when it was returned (taken),
\* what it contains now, and whether it is the very list object that the
\* index stores for listing_id (live).
VARIABLES listings, events, events_by_listing, calls, price_calls, last, added, parse, in_order, held

vars ==
  <<listings, events, events_by_listing, calls, price_calls, last, added,
    parse, in_order, held>>

\* Listing(listing_id=..., address=..., suburb=..., property_type=...)
NewListing ==
  [status |-> "UNKNOWN", current_price |-> None, previous_price |-> None,
   auction_datetime |-> None, price_history |-> <<>>,
   auction_history |-> <<>>]

\* fresh listings and an empty timeline
InitObjects ==
  /\ listings = [l \in ListingIds |-> NewListing]
  /\ events = <<>>
  /\ events_by_listing = <<>>
  /\ calls = 0
  /\ price_calls = [l \in ListingIds |-> 0]
  /\ last = [op |-> "init"]
  /\ added = EmptyBag
  /\ in_order = [l \in ListingIds |-> TRUE]
  /\ held = None

Init ==
  /\ InitObjects
  /\ parse = [value |-> <<>>, result |-> None]

\* a caller is about to convert some label
InitParse ==
  /\ InitObjects
  /\ parse \in [value : Values, result : {None}]

\* add_event appends to the listing's list and sorts it in place: a caller
\* holding that list object sees it change
HeldAfterAdd(h, idx, e) ==
  IF h /= None /\ Val(h).live /\ Val(h).listing_id = Some(e.listing_id)
  THEN Some([Val(h) EXCEPT !.now = AddEventIndex(idx, e)[e.listing_id]])
  ELSE h

\* _events_by_listing.clear() drops the index's references to the lists and
\* leaves the lists as they are; _events.clear() empties the global list
\* in place, which no caller holds
HeldAfterClear(h) ==
  IF h /= None THEN Some([Val(h) EXCEPT !.live = FALSE]) ELSE h

\* mutant: previous_price is kept up only when a timeline is supplied
add_price_record_NeedsTimeline(l, price, timestamp, with_timeline) ==
  LET self == listings[l]
      dropped == price_dropped(self.current_price, price)
      previous == NewPreviousPrice(self.current_price, self.previous_price)
      history == SortByTimestampDesc(
                   Append(self.price_history, PriceHistory(price, timestamp)))
      logs == dropped /\ with_timeline
      raises == logs /\ PriceDropRaises(Val(previous))
      e == Event("PRICE_DROPPED", timestamp, l,
                 PriceDropMetadata(Val(previous), price))
  IN  /\ calls' = calls + 1
      /\ UNCHANGED parse
      /\ price_calls' = [price_calls EXCEPT ![l] = @ + 1]
      /\ in_order' = [in_order EXCEPT ![l] =
                        @ /\ \A i \in 1..Len(self.price_history) :
                               self.price_history[i].timestamp < timestamp]
      /\ listings' = [listings EXCEPT ![l] =
                        [self EXCEPT !.previous_price =
                                       IF with_timeline THEN previous
                                       ELSE self.previous_price,
                                     !.current_price = Some(price),
                                     !.price_history = history]]
      /\ IF logs /\ ~raises
         THEN /\ events' = AddEventGlobal(events, e)
              /\ events_by_listing' = AddEventIndex(events_by_listing, e)
              /\ added' = added (+) SetToBag({e})
              /\ held' = HeldAfterAdd(held, events_by_listing, e)
         ELSE UNCHANGED <<events, events_by_listing, added, held>>
      /\ last' = [op |-> "add_price_record", listing_id |-> l,
                  price |-> price, timestamp |-> timestamp,
                  event_timeline |-> with_timeline,
                  raised |-> IF raises THEN "DivisionByZero" ELSE "none",
                  listings_before |-> listings, events_before |-> events,
                  index_before |-> events_by_listing]

add_price_record(l, price, timestamp, with_timeline) ==
  LET self == listings[l]
      dropped == price_dropped(self.current_price, price)
      previous == NewPreviousPrice(self.current_price, self.previous_price)
      history == SortByTimestampDesc(
                   Append(self.price_history, PriceHistory(price, timestamp)))
      logs == dropped /\ with_timeline
      raises == logs /\ PriceDropRaises(Val(previous))
      e == Event("PRICE_DROPPED", timestamp, l,
                 PriceDropMetadata(Val(previous), price))
  IN  /\ calls' = calls + 1
      /\ UNCHANGED parse
      /\ price_calls' = [price_calls EXCEPT ![l] = @ + 1]
      /\ in_order' = [in_order EXCEPT ![l] =
                        @ /\ \A i \in 1..Len(self.price_history) :
                               self.price_history[i].timestamp < timestamp]
      /\ listings' = [listings EXCEPT ![l] =
                        [self EXCEPT !.previous_price = previous,
                                     !.current_price = Some(price),
                                     !.price_history = history]]
      /\ IF logs /\ ~raises
         THEN /\ events' = AddEventGlobal(events, e)
              /\ events_by_listing' = AddEventIndex(events_by_listing, e)
              /\ added' = added (+) SetToBag({e})
              /\ held' = HeldAfterAdd(held, events_by_listing, e)
         ELSE UNCHANGED <<events, events_by_listing, added, held>>
      /\ last' = [op |-> "add_price_record", listing_id |-> l,
                  price |-> price, timestamp |-> timestamp,
                  event_timeline |-> with_timeline,
                  raised |-> IF raises THEN "DivisionByZero" ELSE "none",
                  listings_before |-> listings, events_before |-> events,
                  index_before |-> events_by_listing]

add_auction_record(l, auction_datetime, status, timestamp, notes, with_timeline) ==
  LET self == listings[l]
      previous_status == self.status
      previous_auction_datetime == self.auction_datetime
      history == SortByTimestampDesc(
                   Append(self.auction_history,
                          AuctionHistory(auction_datetime, status, timestamp,
                                         notes)))
      etype == AuctionEventType(status, previous_auction_datetime,
                                auction_datetime)
      e == Event(Val(etype), timestamp, l,
                 AuctionEventMetadata(Val(etype), previous_status,
                                      previous_auction_datetime,
                                      auction_datetime, notes))
  IN  /\ calls' = calls + 1
      /\ UNCHANGED <<price_calls, parse, in_order>>
      /\ listings' = [listings EXCEPT ![l] =
                        [self EXCEPT
                           !.auction_datetime =
                              NewAuctionDatetime(status, self.auction_datetime,
                                                 auction_datetime),
                           !.status = status,
                           !.auction_history = history]]
      /\ IF with_timeline /\ etype /= None
         THEN /\ events' = AddEventGlobal(events, e)
              /\ events_by_listing' = AddEventIndex(events_by_listing, e)
              /\ added' = added (+) SetToBag({e})
              /\ held' = HeldAfterAdd(held, events_by_listing, e)
         ELSE UNCHANGED <<events, events_by_listing, added, held>>
      /\ last' = [op |-> "add_auction_record", listing_id |-> l,
                  auction_datetime |-> auction_datetime, status |-> status,
                  timestamp |-> timestamp, notes |-> notes,
                  event_timeline |-> with_timeline, raised |-> "none",
                  listings_before |-> listings, events_before |-> events,
                  index_before |-> events_by_listing]

\* a caller records a price on some listing
RecordPrice ==
  \E l \in ListingIds, price \in Prices, timestamp \in Timestamps,
     with_timeline \in BOOLEAN :
    add_price_record(l, price, timestamp, with_timeline)

\* a caller records an auction on some listing
RecordAuction ==
  \E l \in ListingIds, auction_datetime \in Datetimes,
     status \in ListingStatus, timestamp \in Timestamps, notes \in Notes,
     with_timeline \in BOOLEAN :
    add_auction_record(l, auction_datetime, status, timestamp, notes,
                       with_timeline)

PriceStep == calls < MaxCalls /\ RecordPrice
AuctionStep == calls < MaxCalls /\ RecordAuction
PriceOnlyStep == calls < MaxPriceCalls /\ RecordPrice
AuctionOnlyStep == calls < MaxAuctionCalls /\ RecordAuction

Next == PriceStep \/ AuctionStep
NextPrice == PriceOnlyStep
NextAuction == AuctionOnlyStep

\* both mutators, interleaved on the listings
Spec == Init /\ [][Next]_vars
\* add_price_record only
SpecPrice == Init /\ [][NextPrice]_vars
\* add_auction_record only
SpecAuction == Init /\ [][NextAuction]_vars

(* ---------------- the latest call ---------------- *)
PriceCall == last.op = "add_price_record"
AuctionCall == last.op = "add_auction_record"
\* the listing the latest call was made on, before and after the call
Before == last.listings_before[last.listing_id]
After == listings[last.listing_id]

RemoveAt(s, i) == SubSeq(s, 1, i - 1) \o SubSeq(s, i + 1, Len(s))
\* dict.get(k, [])
IndexOf(idx, k) == IF k \in DOMAIN idx THEN idx[k] ELSE <<>>

\* positions of the global list that hold an event the latest call added
EmittedAt ==
  {i \in 1..Len(events) : RemoveAt(events, i) = last.events_before}
EmittedEvent == events[CHOOSE i \in EmittedAt : TRUE]

\* the timeline is as before the call
NoEvent ==
  /\ events = last.events_before
  /\ events_by_listing = last.index_before

\* the call added exactly one event, indexed under its listing only
EmittedOne ==
  /\ Len(events) = Len(last.events_before) + 1
  /\ EmittedAt /= {}
  /\ DOMAIN events_by_listing =
       (DOMAIN last.index_before) \cup {last.listing_id}
  /\ \A k \in DOMAIN events_by_listing :
       IF k = last.listing_id
       THEN \E i \in 1..Len(events_by_listing[k]) :
              /\ events_by_listing[k][i] = EmittedEvent
              /\ RemoveAt(events_by_listing[k], i) =
                   IndexOf(last.index_before, k)
       ELSE events_by_listing[k] = last.index_before[k]

(* ---------------- EventTimeline: direct calls ---------------- *)
add_event(event_type, listing_id, timestamp, metadata) ==
  LET e == Event(event_type, timestamp, listing_id, DefaultMetadata(metadata))
  IN  /\ calls' = calls + 1
      /\ events' = AddEventGlobal(events, e)
      /\ events_by_listing' = AddEventIndex(events_by_listing, e)
      /\ added' = added (+) SetToBag({e})
      /\ held' = HeldAfterAdd(held, events_by_listing, e)
      /\ last' = [op |-> "add_event", listing_id |-> listing_id,
                  event_type |-> event_type, timestamp |-> timestamp,
                  metadata |-> metadata, returned |-> e, raised |-> "none",
                  listings_before |-> listings, events_before |-> events,
                  index_before |-> events_by_listing]
      /\ UNCHANGED <<listings, price_calls, parse, in_order>>

\* mutant: the global list is not cleared
ClearGlobal_Kept(evs) == evs

\* self._events.clear()
ClearGlobal(evs) == <<>>

\* mutant: the per-listing index is not cleared
ClearIndex_Kept(idx) == idx

\* self._events_by_listing.clear()
ClearIndex(idx) == <<>>

clear ==
  /\ events' = ClearGlobal(events)
  /\ events_by_listing' = ClearIndex(events_by_listing)
  /\ added' = EmptyBag
  /\ held' = HeldAfterClear(held)
  /\ last' = [op |-> "clear", raised |-> "none",
              listings_before |-> listings, events_before |-> events,
              index_before |-> events_by_listing]
  /\ UNCHANGED <<listings, price_calls, calls, parse, in_order>>

AddEventStep ==
  /\ calls < MaxAdds
  /\ \E event_type \in EventTypes, listing_id \in ListingIds,
        timestamp \in Timestamps, metadata \in Metadatas :
       add_event(event_type, listing_id, timestamp, metadata)

ClearStep == clear

NextTimeline == AddEventStep \/ ClearStep

\* add_event and clear called directly on the timeline
SpecTimeline == Init /\ [][NextTimeline]_vars

(* ---------------- PropertyType.from_string: a call ---------------- *)
Parse ==
  /\ parse.result = None
  /\ parse' = [parse EXCEPT !.result = Some(from_string(parse.value))]
  /\ UNCHANGED <<listings, events, events_by_listing, calls, price_calls,
                 last, added, in_order, held>>

NextParse == Parse

SpecParse == InitParse /\ [][NextParse]_vars

(* ---------------- EventTimeline: queries ---------------- *)
\* mutant: the type filter is not applied
FilterByType_Ignored(s, event_type) == s

\* [e for e in events if e.event_type == event_type], when a type is given
FilterByType(s, event_type) ==
  IF event_type = None THEN s
  ELSE SelectSeq(s, LAMBDA e : e.event_type = Val(event_type))

\* mutant: the slice is taken from the end of the list, events[-limit:]
Truncate_FromEnd(s, limit) ==
  IF limit = None \/ Val(limit) <= 0 THEN s
  ELSE SubSeq(s, IF Val(limit) < Len(s) THEN Len(s) - Val(limit) + 1 ELSE 1,
              Len(s))

\* events[:limit], when a limit is given; a negative limit counts from the
\* end, as Python slices do
Truncate(s, limit) ==
  IF limit = None THEN s
  ELSE IF Val(limit) >= 0
       THEN SubSeq(s, 1, IF Val(limit) < Len(s) THEN Val(limit) ELSE Len(s))
       ELSE SubSeq(s, 1, IF Len(s) + Val(limit) > 0 THEN Len(s) + Val(limit)
                         ELSE 0)

\* mutant: the limit is applied before the type filter
get_events_for_listing_LimitFirst(idx, listing_id, event_type, limit) ==
  FilterByType(Truncate(IndexOf(idx, listing_id), limit), event_type)

get_events_for_listing(idx, listing_id, event_type, limit) ==
  Truncate(FilterByType(IndexOf(idx, listing_id), event_type), limit)

get_all_events(evs, event_type, limit) ==
  Truncate(FilterByType(evs, event_type), limit)

get_latest_event(idx, listing_id, event_type) ==
  LET found == get_events_for_listing(idx, listing_id, event_type, Some(1))
  IN  IF found /= <<>> THEN Some(found[1]) ELSE None

\* mutant: any event of the listing counts
has_event_type_AnyType(idx, listing_id, event_type) ==
  Len(get_events_for_listing(idx, listing_id, None, None)) > 0

has_event_type(idx, listing_id, event_type) ==
  Len(get_events_for_listing(idx, listing_id, Some(event_type), None)) > 0

\* mutant: the type filter is dropped when a listing is given
count_events_TypeDropped(evs, idx, listing_id, event_type) ==
  IF listing_id /= None
  THEN Len(get_events_for_listing(idx, Val(listing_id), None, None))
  ELSE Len(get_all_events(evs, event_type, None))

count_events(evs, idx, listing_id, event_type) ==
  IF listing_id /= None
  THEN Len(get_events_for_listing(idx, Val(listing_id), event_type, None))
  ELSE Len(get_all_events(evs, event_type, None))

\* the optional arguments of the queries
OptEventTypes == {None} \cup {Some(t) : t \in EventTypes}
OptListingIds == {None} \cup {Some(l) : l \in ListingIds}
Limits == (-1)..MaxLimit
OptLimits == {None} \cup {Some(n) : n \in Limits}

(* ---------------- EventTimeline: calls of the queries ---------------- *)
\* mutant: the lookup files an empty list under a listing_id it does not find
IndexAfterLookup_SetDefault(idx, listing_id) ==
  [k \in (DOMAIN idx) \cup {listing_id} |->
     IF k \in DOMAIN idx THEN idx[k] ELSE <<>>]

\* self._events_by_listing.get(listing_id, []) leaves the dict as it is
IndexAfterLookup(idx, listing_id) == idx

\* whether get_events_for_listing returns the list object stored in the
\* index: .get returns it when the key is there, and neither the list
\* comprehension nor the slice, which build new lists, is run
ReturnsStoredList(idx, listing_id, event_type, limit) ==
  listing_id \in DOMAIN idx /\ event_type = None /\ limit = None

\* the latest call, when it is a query
QueryCall(op, listing_id, event_type, limit, result) ==
  [op |-> op, listing_id |-> listing_id, event_type |-> event_type,
   limit |-> limit, result |-> result, raised |-> "none",
   listings_before |-> listings, events_before |-> events,
   index_before |-> events_by_listing]

QueryFrame == UNCHANGED <<listings, events, calls, price_calls, added, parse, in_order>>

\* a caller calls get_events_for_listing and keeps the list
GetEventsForListing(listing_id, event_type, limit) ==
  LET result == get_events_for_listing(events_by_listing, listing_id,
                                       event_type, limit)
  IN  /\ held = None
      /\ held' = Some([op |-> "get_events_for_listing",
                       listing_id |-> Some(listing_id),
                       live |-> ReturnsStoredList(events_by_listing,
                                                  listing_id, event_type,
                                                  limit),
                       taken |-> result, now |-> result])
      /\ events_by_listing' = IndexAfterLookup(events_by_listing, listing_id)
      /\ last' = QueryCall("get_events_for_listing", Some(listing_id),
                           event_type, limit, result)
      /\ QueryFrame

\* a caller calls get_all_events and keeps the list: a copy of _events
GetAllEvents(event_type, limit) ==
  LET result == get_all_events(events, event_type, limit)
  IN  /\ held = None
      /\ held' = Some([op |-> "get_all_events", listing_id |-> None,
                       live |-> FALSE, taken |-> result, now |-> result])
      /\ last' = QueryCall("get_all_events", None, event_type, limit, result)
      /\ UNCHANGED events_by_listing
      /\ QueryFrame

GetLatestEvent(listing_id, event_type) ==
  /\ held = None
  /\ events_by_listing' = IndexAfterLookup(events_by_listing, listing_id)
  /\ last' = QueryCall("get_latest_event", Some(listing_id), event_type,
                       Some(1),
                       get_latest_event(events_by_listing, listing_id,
                                        event_type))
  /\ UNCHANGED held
  /\ QueryFrame

HasEventType(listing_id, event_type) ==
  /\ held = None
  /\ events_by_listing' = IndexAfterLookup(events_by_listing, listing_id)
  /\ last' = QueryCall("has_event_type", Some(listing_id), Some(event_type),
                       None,
                       has_event_type(events_by_listing, listing_id,
                                      event_type))
  /\ UNCHANGED held
  /\ QueryFrame

CountEvents(listing_id, event_type) ==
  /\ held = None
  /\ events_by_listing' =
       (IF listing_id /= None
        THEN IndexAfterLookup(events_by_listing, Val(listing_id))
        ELSE events_by_listing)
  /\ last' = QueryCall("count_events", listing_id, event_type, None,
                       count_events(events, events_by_listing, listing_id,
                                    event_type))
  /\ UNCHANGED held
  /\ QueryFrame

AddEventQueryStep ==
  /\ calls < MaxQueryAdds
  /\ \E event_type \in EventTypes, listing_id \in ListingIds,
        timestamp \in Timestamps, metadata \in Metadatas :
       add_event(event_type, listing_id, timestamp, metadata)

GetEventsForListingStep ==
  \E listing_id \in ListingIds, event_type \in OptEventTypes,
     limit \in OptLimits :
    GetEventsForListing(listing_id, event_type, limit)

GetAllEventsStep ==
  \E event_type \in OptEventTypes, limit \in OptLimits :
    GetAllEvents(event_type, limit)

GetLatestEventStep ==
  \E listing_id \in ListingIds, event_type \in OptEventTypes :
    GetLatestEvent(listing_id, event_type)

HasEventTypeStep ==
  \E listing_id \in ListingIds, event_type \in EventTypes :
    HasEventType(listing_id, event_type)

CountEventsStep ==
  \E listing_id \in OptListingIds, event_type \in OptEventTypes :
    CountEvents(listing_id, event_type)

NextQuery ==
  \/ AddEventQueryStep
  \/ ClearStep
  \/ GetEventsForListingStep
  \/ GetAllEventsStep
  \/ GetLatestEventStep
  \/ HasEventTypeStep
  \/ CountEventsStep

\* add_event, clear and the queries called on the timeline; a caller asks
\* its questions, keeps one returned list, and the timeline is changed
\* while the caller holds it
SpecQuery == Init /\ [][NextQuery]_vars

(* ======================= claims ======================= *)
NonIncreasing(h) ==
  \A i \in 1..(Len(h) - 1) : h[i].timestamp >= h[i + 1].timestamp

\* C1 (as stated): a price call with new_price < current_price and a
\* timeline supplied emits exactly one PRICE_DROPPED event of the calling
\* listing with old_price = the price before the call, new_price = the
\* recorded price and drop_amount = old_price - new_price; a call with
\* new_price >= current_price, or with no current price, emits none.
C1_PriceDropEmitsOne ==
  PriceCall =>
    LET cur == Before.current_price
        p == last.price
    IN  /\ (cur /= None /\ p < Val(cur) /\ last.event_timeline) =>
             /\ EmittedOne
             /\ EmittedEvent.event_type = "PRICE_DROPPED"
             /\ EmittedEvent.listing_id = last.listing_id
             /\ EmittedEvent.metadata.old_price = DecimalStr(Val(cur))
             /\ EmittedEvent.metadata.new_price = DecimalStr(p)
             /\ EmittedEvent.metadata.drop_amount = DecimalStr(Val(cur) - p)
        /\ (cur = None \/ p >= Val(cur)) => NoEvent

\* C2 (as stated): an auction call with status cancelled (voided) emits
\* exactly one AUCTION_CANCELLED (AUCTION_VOIDED) event, whatever the
\* previous status and stored auction_datetime, with previous_status = the
\* status before the call.
C2_CancelVoidAlwaysEmits ==
  (AuctionCall /\ last.status \in {"CANCELLED", "VOIDED"}) =>
    /\ EmittedOne
    /\ EmittedEvent.event_type =
         (IF last.status = "CANCELLED" THEN "AUCTION_CANCELLED"
          ELSE "AUCTION_VOIDED")
    /\ EmittedEvent.metadata.previous_status = StatusStr(Before.status)

\* C2 (amended): the same for the calls that are given an event timeline;
\* a call without a timeline emits nothing.
C2_CancelVoidEmitsWithTimeline ==
  (AuctionCall /\ last.status \in {"CANCELLED", "VOIDED"}) =>
    IF last.event_timeline
    THEN /\ EmittedOne
         /\ EmittedEvent.event_type =
              (IF last.status = "CANCELLED" THEN "AUCTION_CANCELLED"
               ELSE "AUCTION_VOIDED")
         /\ EmittedEvent.listing_id = last.listing_id
         /\ EmittedEvent.metadata.previous_status = StatusStr(Before.status)
    ELSE NoEvent

C2_Witness ==
  /\ AuctionCall /\ last.status = "CANCELLED" /\ last.event_timeline
  /\ Before.status = "SCHEDULED" /\ Before.auction_datetime /= None
  /\ EmittedOne /\ EmittedEvent.event_type = "AUCTION_CANCELLED"

\* C3: an auction call with status scheduled and a timeline emits an
\* AUCTION_RESCHEDULED event iff a datetime was stored before the call and
\* the incoming one differs from it; the event carries the stored datetime
\* as old_auction_datetime and the incoming one as new_auction_datetime.
C3_RescheduledIff ==
  (AuctionCall /\ last.status = "SCHEDULED" /\ last.event_timeline) =>
    LET stored == Before.auction_datetime
        changed == stored /= None /\ last.auction_datetime /= Val(stored)
    IN  IF changed
        THEN /\ EmittedOne
             /\ EmittedEvent.event_type = "AUCTION_RESCHEDULED"
             /\ EmittedEvent.listing_id = last.listing_id
             /\ EmittedEvent.metadata.old_auction_datetime =
                  IsoFormat(Val(stored))
             /\ EmittedEvent.metadata.new_auction_datetime =
                  IsoFormat(last.auction_datetime)
        ELSE NoEvent

\* a reschedule to an earlier date than the stored one
C3_Witness ==
  /\ AuctionCall /\ last.status = "SCHEDULED" /\ last.event_timeline
  /\ Before.auction_datetime /= None
  /\ last.auction_datetime < Val(Before.auction_datetime)
  /\ EmittedOne /\ EmittedEvent.event_type = "AUCTION_RESCHEDULED"

\* C4: first-ever scheduling, scheduling with the stored datetime, and
\* every call with status sold, withdrawn, active, under_offer or unknown
\* leave the timeline unchanged and raise nothing.
C4_NoRuleNoEvent ==
  AuctionCall =>
    LET stored == Before.auction_datetime
        silent ==
          \/ last.status = "SCHEDULED" /\ stored = None
          \/ last.status = "SCHEDULED" /\ stored = Some(last.auction_datetime)
          \/ last.status \in
               {"SOLD", "WITHDRAWN", "ACTIVE", "UNDER_OFFER", "UNKNOWN"}
    IN  silent => (NoEvent /\ last.raised = "none")

\* the stored datetime is scheduled again, with a timeline
C4_Witness ==
  /\ AuctionCall /\ last.status = "SCHEDULED" /\ last.event_timeline
  /\ Before.auction_datetime = Some(last.auction_datetime)
  /\ NoEvent

\* C5: a call of either mutator adds at most one event to the timeline,
\* and only under the listing_id of the calling listing.
C5_AtMostOneEvent ==
  (PriceCall \/ AuctionCall) =>
    \/ NoEvent
    \/ EmittedOne /\ EmittedEvent.listing_id = last.listing_id

\* an event is added while the timeline holds an event of another listing
C5_Witness ==
  /\ PriceCall \/ AuctionCall
  /\ EmittedOne
  /\ \E i \in 1..Len(last.events_before) :
       last.events_before[i].listing_id /= last.listing_id

\* C6 (as stated): a negative new_price is rejected with a validation
\* error and the listing and the timeline are left as they were.
C6_NegativePriceRejected ==
  (PriceCall /\ last.price < 0) =>
    /\ last.raised = "ValidationError"
    /\ After = Before
    /\ NoEvent

\* C7 (as stated): a mutator call that ends in an error leaves the listing
\* and the timeline as they were before the call.
C7_ErrorLeavesStateUnchanged ==
  ((PriceCall \/ AuctionCall) /\ last.raised /= "none") =>
    /\ listings = last.listings_before
    /\ NoEvent

\* C8: after every price call on a listing that started with an empty
\* price_history, the length of price_history is the number of price calls
\* made on the listing and its timestamps are non-increasing.
C8_PriceHistoryLengthAndOrder ==
  \A l \in ListingIds :
    /\ Len(listings[l].price_history) = price_calls[l]
    /\ NonIncreasing(listings[l].price_history)

\* the third call carries the latest timestamp, so the appended record
\* has to move to the front of the two records already held
C8_Witness ==
  /\ PriceCall
  /\ Len(Before.price_history) = 2
  /\ Before.price_history[1].timestamp < last.timestamp
  /\ Len(After.price_history) = 3
  /\ After.price_history[1].timestamp = last.timestamp
  /\ SubSeq(After.price_history, 2, 3) = Before.price_history

\* C9: after a price call that returns, current_price is the new price and
\* previous_price is the current_price held before the call when that was
\* not null, and is unchanged otherwise; an auction call changes neither.
C9_CurrentAndPreviousPrice ==
  /\ (PriceCall /\ last.raised = "none") =>
       /\ After.current_price = Some(last.price)
       /\ After.previous_price =
            (IF Before.current_price /= None THEN Before.current_price
             ELSE Before.previous_price)
       /\ \A l \in ListingIds \ {last.listing_id} :
            listings[l] = last.listings_before[l]
  /\ AuctionCall =>
       \A l \in ListingIds :
         /\ listings[l].previous_price = last.listings_before[l].previous_price
         /\ listings[l].current_price = last.listings_before[l].current_price

C9_Witness ==
  /\ PriceCall /\ last.raised = "none"
  /\ Before.current_price /= None
  /\ After.previous_price = Before.current_price
  /\ After.previous_price /= After.current_price

\* C10: an auction call with status scheduled sets auction_datetime to the
\* incoming datetime when none is stored or the incoming one is strictly
\* later, and leaves it unchanged when it is earlier or equal.
C10_ScheduledAdvancesDatetime ==
  (AuctionCall /\ last.status = "SCHEDULED") =>
    LET stored == Before.auction_datetime
    IN  /\ (stored = None \/ last.auction_datetime > Val(stored)) =>
             After.auction_datetime = Some(last.auction_datetime)
        /\ (stored /= None /\ last.auction_datetime <= Val(stored)) =>
             After.auction_datetime = stored

\* an earlier date is scheduled and the stored one stays
C10_Witness ==
  /\ AuctionCall /\ last.status = "SCHEDULED"
  /\ Before.auction_datetime /= None
  /\ last.auction_datetime < Val(Before.auction_datetime)
  /\ After.auction_datetime = Before.auction_datetime

\* C11: an auction call whose status is not scheduled never changes
\* auction_datetime, whatever auction_datetime argument it carries.
C11_NonScheduledKeepsDatetime ==
  (AuctionCall /\ last.status /= "SCHEDULED") =>
    After.auction_datetime = Before.auction_datetime

\* a cancellation that names a later date than the stored one
C11_Witness ==
  /\ AuctionCall /\ last.status = "CANCELLED"
  /\ Before.auction_datetime /= None
  /\ last.auction_datetime > Val(Before.auction_datetime)
  /\ After.auction_datetime = Before.auction_datetime

\* C12: every auction call sets status to the call's status and adds to
\* auction_history exactly one record with the call's auction_datetime,
\* status, timestamp and notes; the records held before are all kept, in
\* their order, and the timestamps are non-increasing.
C12_StatusAndAuctionHistory ==
  AuctionCall =>
    LET record == [auction_datetime |-> last.auction_datetime,
                   status |-> last.status, timestamp |-> last.timestamp,
                   notes |-> last.notes]
        history == After.auction_history
    IN  /\ After.status = last.status
        /\ Len(history) = Len(Before.auction_history) + 1
        /\ \E i \in 1..Len(history) :
             /\ history[i] = record
             /\ RemoveAt(history, i) = Before.auction_history
        /\ NonIncreasing(history)

\* a record with notes and a later timestamp goes in front of the one held
C12_Witness ==
  /\ AuctionCall /\ last.notes /= None
  /\ Len(Before.auction_history) = 1
  /\ Before.auction_history[1].timestamp < last.timestamp
  /\ Before.status /= last.status
  /\ After.auction_history[1].notes = last.notes
  /\ After.auction_history[2] = Before.auction_history[1]

(* ---------------- claims about the timeline ---------------- *)
AddEventCall == last.op = "add_event"
ClearCall == last.op = "clear"

\* the events added since the last clear that a query for (listing, type)
\* is about; a filter of None matches everything
AddedMatching(listing_id, event_type) ==
  {e \in BagToSet(added) :
     /\ listing_id = None \/ e.listing_id = Val(listing_id)
     /\ event_type = None \/ e.event_type = Val(event_type)}

RECURSIVE SumCopies(_)
SumCopies(S) ==
  IF S = {} THEN 0
  ELSE LET e == CHOOSE x \in S : TRUE
       IN  CopiesIn(e, added) + SumCopies(S \ {e})

\* how many of them there are, counting equal events as often as added
CountAdded(listing_id, event_type) ==
  SumCopies(AddedMatching(listing_id, event_type))

Occurrences(s, e) == Cardinality({i \in 1..Len(s) : s[i] = e})
Range(s) == {s[i] : i \in 1..Len(s)}
Least(a, b) == IF a < b THEN a ELSE b

\* C13: after any sequence of add_event calls, get_all_events() and
\* get_events_for_listing(X), for every X, are in non-increasing timestamp
\* order.
C13_QueriesNewestFirst ==
  /\ NonIncreasing(get_all_events(events, None, None))
  /\ \A l \in ListingIds :
       NonIncreasing(get_events_for_listing(events_by_listing, l, None, None))

\* the third event of a listing is the newest and is returned first
C13_Witness ==
  /\ AddEventCall
  /\ Len(IndexOf(last.index_before, last.listing_id)) = 2
  /\ \A i \in 1..2 :
       last.index_before[last.listing_id][i].timestamp < last.timestamp
  /\ get_events_for_listing(events_by_listing, last.listing_id, None,
                            None)[1] = last.returned

\* C14: get_events_for_listing(X, T) returns exactly the events added with
\* listing_id X and type T, each as often as it was added and no other, in
\* non-increasing timestamp order; without a type, the events added with X.
C14_ListingQueryExact ==
  \A l \in ListingIds, t \in OptEventTypes :
    LET r == get_events_for_listing(events_by_listing, l, t, None)
        wanted == AddedMatching(Some(l), t)
    IN  /\ Range(r) = wanted
        /\ \A e \in wanted : Occurrences(r, e) = CopiesIn(e, added)
        /\ NonIncreasing(r)

\* a listing holds events of two types next to an event of another listing
C14_Witness ==
  /\ AddEventCall
  /\ \E l \in ListingIds, t \in EventTypes :
       /\ Len(get_events_for_listing(events_by_listing, l, Some(t), None)) = 1
       /\ Len(get_events_for_listing(events_by_listing, l, None, None)) = 2
       /\ Len(events) = 3

\* C15: count_events() is len(get_all_events()), count_events(listing_id=X)
\* is len(get_events_for_listing(X)), and with a type the count is the
\* number of events of that type, of all listings or of listing X.
C15_CountEvents ==
  /\ count_events(events, events_by_listing, None, None)
       = Len(get_all_events(events, None, None))
  /\ \A l \in OptListingIds, t \in OptEventTypes :
       count_events(events, events_by_listing, l, t) = CountAdded(l, t)
  /\ \A l \in ListingIds :
       count_events(events, events_by_listing, Some(l), None)
         = Len(get_events_for_listing(events_by_listing, l, None, None))

\* the four counts differ: 3 events, 2 of a listing, 2 of a type, 1 of both
C15_Witness ==
  \E l \in ListingIds, t \in EventTypes :
    /\ count_events(events, events_by_listing, None, None) = 3
    /\ count_events(events, events_by_listing, Some(l), None) = 2
    /\ count_events(events, events_by_listing, None, Some(t)) = 2
    /\ count_events(events, events_by_listing, Some(l), Some(t)) = 1

\* C16: for a listing_id with no event added since construction or the
\* last clear, get_events_for_listing is empty, get_latest_event is absent,
\* has_event_type is false and count_events(listing_id) is 0.
C16_UnknownListingEmpty ==
  \A l \in ListingIds :
    AddedMatching(Some(l), None) = {} =>
      /\ \A t \in OptEventTypes, n \in {None} \cup {Some(k) : k \in Limits} :
           get_events_for_listing(events_by_listing, l, t, n) = <<>>
      /\ \A t \in OptEventTypes :
           /\ get_latest_event(events_by_listing, l, t) = None
           /\ count_events(events, events_by_listing, Some(l), t) = 0
      /\ \A t \in EventTypes : ~has_event_type(events_by_listing, l, t)

\* after a clear an event is added for one listing; the other listing,
\* which held events before the clear, has none now
C16_Witness ==
  /\ AddEventCall /\ calls = 3
  /\ Len(events) = 1
  /\ \E l \in ListingIds \ {last.listing_id} :
       get_events_for_listing(events_by_listing, l, None, None) = <<>>

\* C17: get_latest_event(X, T) is the first element of
\* get_events_for_listing(X, T, limit=1): an event of X (and of type T)
\* with the greatest timestamp among the matching events; it is absent
\* exactly when no event matches.
C17_LatestEvent ==
  \A l \in ListingIds, t \in OptEventTypes :
    LET r == get_latest_event(events_by_listing, l, t)
        first == get_events_for_listing(events_by_listing, l, t, Some(1))
        wanted == AddedMatching(Some(l), t)
    IN  IF wanted = {}
        THEN r = None /\ first = <<>>
        ELSE /\ r /= None
             /\ first = <<Val(r)>>
             /\ Val(r) \in wanted
             /\ \A e \in wanted : Val(r).timestamp >= e.timestamp

\* the event added last is older than the latest event of its listing
C17_Witness ==
  /\ AddEventCall
  /\ get_latest_event(events_by_listing, last.listing_id, None) /= None
  /\ Val(get_latest_event(events_by_listing, last.listing_id,
                          None)).timestamp > last.timestamp

\* C18: has_event_type(X, T) is true iff get_events_for_listing(X, T) is
\* non-empty, that is iff an event with listing_id X and type T was added
\* since construction or the last clear.
C18_HasEventType ==
  \A l \in ListingIds, t \in EventTypes :
    /\ has_event_type(events_by_listing, l, t)
         <=> (get_events_for_listing(events_by_listing, l, Some(t), None)
                /= <<>>)
    /\ has_event_type(events_by_listing, l, t)
         <=> (AddedMatching(Some(l), Some(t)) /= {})

\* a listing has an event of one type and none of another
C18_Witness ==
  \E l \in ListingIds, t, u \in EventTypes :
    /\ has_event_type(events_by_listing, l, t)
    /\ ~has_event_type(events_by_listing, l, u)
    /\ AddedMatching(Some(l), Some(u)) = {}
    /\ AddedMatching(Some(l), None) /= {}

\* C19: for every limit n >= 0, get_events_for_listing and get_all_events
\* return the first min(n, k) entries of the type-filtered sequence of the
\* k matching events: the filter comes before the truncation.
C19_LimitAfterFilter ==
  \A t \in OptEventTypes, n \in 0..MaxLimit :
    /\ \A l \in ListingIds :
         LET r == get_events_for_listing(events_by_listing, l, t, Some(n))
             all == get_events_for_listing(events_by_listing, l, t, None)
             k == CountAdded(Some(l), t)
         IN  /\ Len(r) = Least(n, k)
             /\ r = SubSeq(all, 1, Len(r))
             /\ Range(r) \subseteq AddedMatching(Some(l), t)
    /\ LET r == get_all_events(events, t, Some(n))
           all == get_all_events(events, t, None)
           k == CountAdded(None, t)
       IN  /\ Len(r) = Least(n, k)
           /\ r = SubSeq(all, 1, Len(r))
           /\ Range(r) \subseteq AddedMatching(None, t)

\* the newest event of a listing has another type than the one asked for:
\* with limit 1 the older, matching event is returned
C19_Witness ==
  \E l \in ListingIds, t \in EventTypes :
    LET stored == IndexOf(events_by_listing, l)
    IN  /\ Len(stored) >= 2
        /\ stored[1].event_type /= t
        /\ stored[2].event_type = t
        /\ get_events_for_listing(events_by_listing, l, Some(t), Some(1))
             = <<stored[2]>>

\* C20: clear() empties the global list and the per-listing index, so that
\* count_events() is 0 and every query of every listing is empty; the state
\* after a clear does not depend on the state before it (a second clear
\* changes nothing), and an add_event on the cleared timeline leaves what it
\* leaves on a fresh one.
C20_Clear ==
  /\ ClearCall =>
       /\ events = <<>>
       /\ events_by_listing = <<>>
       /\ count_events(events, events_by_listing, None, None) = 0
       /\ \A t \in OptEventTypes : get_all_events(events, t, None) = <<>>
       /\ \A l \in ListingIds, t \in OptEventTypes :
            /\ get_events_for_listing(events_by_listing, l, t, None) = <<>>
            /\ get_latest_event(events_by_listing, l, t) = None
            /\ count_events(events, events_by_listing, Some(l), t) = 0
       /\ (last.events_before = <<>> /\ last.index_before = <<>>) =>
            (events = last.events_before
               /\ events_by_listing = last.index_before)
  /\ (AddEventCall /\ last.events_before = <<>> /\ calls > 1) =>
       /\ last.index_before = <<>>
       /\ events = <<last.returned>>
       /\ get_events_for_listing(events_by_listing, last.listing_id, None,
                                 None) = <<last.returned>>
       /\ DOMAIN events_by_listing = {last.listing_id}

\* a timeline that held events of both listings is cleared
C20_Witness ==
  /\ ClearCall
  /\ Len(last.events_before) = 3
  /\ DOMAIN last.index_before = ListingIds
  /\ events = <<>>

\* C21: every add_event call makes the timeline one event longer and
\* returns the event it stored, which carries the given type, listing_id,
\* timestamp and metadata; the events stored before the call are all still
\* there, unaltered and in their order, in the global list and in the index.
C21_AppendOnly ==
  AddEventCall =>
    /\ Len(events) = Len(last.events_before) + 1
    /\ last.returned =
         [event_type |-> last.event_type, timestamp |-> last.timestamp,
          listing_id |-> last.listing_id,
          metadata |-> IF last.metadata = None THEN <<>>
                       ELSE Val(last.metadata)]
    /\ \E i \in 1..Len(events) :
         /\ events[i] = last.returned
         /\ RemoveAt(events, i) = last.events_before
    /\ \E i \in 1..Len(IndexOf(events_by_listing, last.listing_id)) :
         /\ events_by_listing[last.listing_id][i] = last.returned
         /\ RemoveAt(events_by_listing[last.listing_id], i) =
              IndexOf(last.index_before, last.listing_id)
    /\ \A k \in ListingIds \ {last.listing_id} :
         IndexOf(events_by_listing, k) = IndexOf(last.index_before, k)

\* an event with metadata is stored between a newer and an older event
C21_Witness ==
  /\ AddEventCall
  /\ last.metadata /= None
  /\ Len(last.events_before) = 2
  /\ events[2] = last.returned
  /\ events[1].timestamp > events[3].timestamp

\* the latest call logged an AUCTION_RESCHEDULED event
EmittedRescheduled ==
  /\ AuctionCall
  /\ ~NoEvent
  /\ EmittedOne
  /\ EmittedEvent.event_type = "AUCTION_RESCHEDULED"

\* C22 (as stated): whenever an auction call emits AUCTION_RESCHEDULED, the
\* listing's auction_datetime after the call is the event's
\* new_auction_datetime.
C22_RescheduledMatchesDatetime ==
  EmittedRescheduled =>
    /\ After.auction_datetime /= None
    /\ EmittedEvent.metadata.new_auction_datetime =
         IsoFormat(Val(After.auction_datetime))

\* C22 (amended): the event's new_auction_datetime is the datetime passed to
\* the call and its old_auction_datetime the one stored before; the
\* listing's auction_datetime after the call is the new one when that is
\* later than the stored one, and stays the stored one when it is earlier.
C22_RescheduledMatchesWhenLater ==
  EmittedRescheduled =>
    /\ Before.auction_datetime /= None
    /\ EmittedEvent.metadata.new_auction_datetime =
         IsoFormat(last.auction_datetime)
    /\ EmittedEvent.metadata.old_auction_datetime =
         IsoFormat(Val(Before.auction_datetime))
    /\ After.auction_datetime =
         (IF last.auction_datetime > Val(Before.auction_datetime)
          THEN Some(last.auction_datetime)
          ELSE Before.auction_datetime)

\* an auction is rescheduled to an earlier date: the event is logged and
\* the stored datetime stays
C22_Witness ==
  /\ EmittedRescheduled
  /\ last.auction_datetime < Val(Before.auction_datetime)
  /\ After.auction_datetime = Before.auction_datetime

(* ---------------- claims about PropertyType.from_string ---------------- *)
Parsed == parse.result /= None

\* the order in which the types are looked for, and what they are known by
Precedence ==
  <<"HOUSE", "UNIT", "APARTMENT", "TOWNHOUSE", "VILLA", "LAND", "STUDIO">>

KeywordsOf(t) ==
  CASE t = "HOUSE" -> {Keyword_house}
    [] t = "UNIT" -> {Keyword_unit, Keyword_flat}
    [] t = "APARTMENT" -> {Keyword_apartment}
    [] t = "TOWNHOUSE" -> {Keyword_townhouse, Keyword_town_house}
    [] t = "VILLA" -> {Keyword_villa}
    [] t = "LAND" -> {Keyword_land}
    [] t = "STUDIO" -> {Keyword_studio}

\* value has a keyword of type t in it, in whatever letter case
Mentions(value, t) ==
  \E k \in KeywordsOf(t) :
    \E i \in 0..(Len(value) - Len(k)) :
      \A j \in 1..Len(k) : LowerChar(value[i + j]) = k[j]

Mentioned(value) == {i \in 1..Len(Precedence) : Mentions(value, Precedence[i])}

C24_NamesMapToTheirType ==
  Parsed =>
    /\ \A t \in PropertyType :
         Lower(parse.value) = PropertyTypeValue[t] => parse.result = Some(t)
    /\ parse.value = ApartmentUnitFlat => parse.result = Some("UNIT")

(* ---------------- further claims about the listing and the timeline ---- *)
\* the auction datetimes of the scheduled records of a listing
ScheduledDatetimes(l) ==
  {listings[l].auction_history[i].auction_datetime :
     i \in {j \in 1..Len(listings[l].auction_history) :
              listings[l].auction_history[j].status = "SCHEDULED"}}

\* C25: on a listing constructed without auction_datetime and history,
\* auction_datetime is None while no scheduled record has been recorded and
\* otherwise the greatest auction_datetime of the scheduled records; a call
\* never lowers it and never sets it back to None.
C25_LatestScheduled ==
  /\ \A l \in ListingIds :
       IF ScheduledDatetimes(l) = {}
       THEN listings[l].auction_datetime = None
       ELSE /\ listings[l].auction_datetime /= None
            /\ Val(listings[l].auction_datetime) \in ScheduledDatetimes(l)
            /\ \A d \in ScheduledDatetimes(l) :
                 d <= Val(listings[l].auction_datetime)
  /\ (AuctionCall /\ Before.auction_datetime /= None) =>
       /\ After.auction_datetime /= None
       /\ Val(After.auction_datetime) >= Val(Before.auction_datetime)

\* a later auction, then an earlier one, both scheduled: the later is kept
C25_Witness ==
  /\ AuctionCall
  /\ last.status = "SCHEDULED"
  /\ Cardinality(ScheduledDatetimes(last.listing_id)) = 2
  /\ Before.auction_datetime /= None
  /\ last.auction_datetime < Val(Before.auction_datetime)
  /\ After.auction_datetime = Before.auction_datetime

\* C26: the list the index holds for listing X is the subsequence of the
\* global list made of the events with listing_id X, in the same order,
\* also among events with equal timestamps; the index has no other entry,
\* so every event of the global list is in exactly one listing's list.
C26_IndexIsSubsequence ==
  /\ \A l \in ListingIds :
       IndexOf(events_by_listing, l) =
         SelectSeq(events, LAMBDA e : e.listing_id = l)
  /\ DOMAIN events_by_listing \subseteq ListingIds
  /\ \A l \in DOMAIN events_by_listing :
       \A i \in 1..Len(events_by_listing[l]) :
         events_by_listing[l][i].listing_id = l

\* two different events of a listing with the same timestamp, and an event
\* of another listing with that timestamp between them in the global list
C26_Witness ==
  /\ Len(events) = 3
  /\ events[1].listing_id = events[3].listing_id
  /\ events[2].listing_id /= events[1].listing_id
  /\ events[1].timestamp = events[3].timestamp
  /\ events[1] /= events[3]
  /\ events_by_listing[events[1].listing_id] = <<events[1], events[3]>>

\* C27 (as stated): the record that a price call appends to price_history
\* carries the call's price, its timestamp and its source argument,
\* whichever source the caller has to pass on.
C27_RecordCarriesSource ==
  PriceCall =>
    \A source \in Sources :
      \E i \in 1..Len(After.price_history) :
        /\ After.price_history[i] =
             [price |-> last.price, timestamp |-> last.timestamp,
              source |-> source]
        /\ RemoveAt(After.price_history, i) = Before.price_history

\* the latest call was a mutator call that logged an event
MutatorCall == PriceCall \/ AuctionCall
EventsOfOthers(evs) == SelectSeq(evs, LAMBDA e : e.listing_id /= last.listing_id)

\* the history record the latest call appended has timestamp t
AppendedAt(t) ==
  IF PriceCall
  THEN \E i \in 1..Len(After.price_history) :
         /\ After.price_history[i].timestamp = t
         /\ After.price_history[i].price = last.price
         /\ RemoveAt(After.price_history, i) = Before.price_history
  ELSE \E i \in 1..Len(After.auction_history) :
         /\ After.auction_history[i].timestamp = t
         /\ After.auction_history[i].status = last.status
         /\ RemoveAt(After.auction_history, i) = Before.auction_history

\* C28: an event emitted by add_price_record or add_auction_record carries
\* the listing_id of the listing the call was made on and the timestamp of
\* the history record the call appended; it is indexed under that listing
\* only, and the events of the other listings are as before.
C28_EventOfCallingListing ==
  (MutatorCall /\ ~NoEvent) =>
    /\ EmittedOne
    /\ EmittedEvent.listing_id = last.listing_id
    /\ EmittedEvent.timestamp = last.timestamp
    /\ AppendedAt(EmittedEvent.timestamp)
    /\ \A k \in ListingIds \ {last.listing_id} :
         IndexOf(events_by_listing, k) = IndexOf(last.index_before, k)
    /\ EventsOfOthers(events) = EventsOfOthers(last.events_before)

\* an event is logged at an earlier timestamp than the event that another
\* listing already has on the shared timeline
C28_Witness ==
  /\ MutatorCall /\ ~NoEvent
  /\ Len(last.events_before) = 1
  /\ last.events_before[1].listing_id /= last.listing_id
  /\ last.events_before[1].timestamp > last.timestamp
  /\ events[2].listing_id = last.listing_id

\* C29: what a successful mutator call does to its listing is determined by
\* the listing before the call and the call's arguments other than the
\* timeline, so it is the same with and without one; the other listings are
\* untouched, and a call without a timeline records no event.
C29_TimelineDoesNotMatter ==
  /\ (PriceCall /\ last.raised = "none") =>
       /\ After.current_price = Some(last.price)
       /\ After.previous_price =
            (IF Before.current_price /= None THEN Before.current_price
             ELSE Before.previous_price)
       /\ After.price_history =
            SortByTimestampDesc(
              Append(Before.price_history,
                     [price |-> last.price, timestamp |-> last.timestamp,
                      source |-> None]))
       /\ After.status = Before.status
       /\ After.auction_datetime = Before.auction_datetime
       /\ After.auction_history = Before.auction_history
  /\ AuctionCall =>
       /\ After.status = last.status
       /\ After.auction_datetime =
            (IF last.status = "SCHEDULED"
                /\ (Before.auction_datetime = None
                    \/ last.auction_datetime > Val(Before.auction_datetime))
             THEN Some(last.auction_datetime)
             ELSE Before.auction_datetime)
       /\ After.auction_history =
            SortByTimestampDesc(
              Append(Before.auction_history,
                     [auction_datetime |-> last.auction_datetime,
                      status |-> last.status, timestamp |-> last.timestamp,
                      notes |-> last.notes]))
       /\ After.current_price = Before.current_price
       /\ After.previous_price = Before.previous_price
       /\ After.price_history = Before.price_history
  /\ MutatorCall =>
       /\ \A k \in ListingIds \ {last.listing_id} :
            listings[k] = last.listings_before[k]
       /\ ~last.event_timeline => NoEvent

\* a price drop recorded without a timeline: the listing changes as it
\* would with one, and nothing is logged
C29_Witness ==
  /\ PriceCall
  /\ ~last.event_timeline
  /\ price_dropped(Before.current_price, last.price)
  /\ After.previous_price = Before.current_price
  /\ NoEvent

DistinctTimestamps(h) ==
  \A i, j \in 1..Len(h) : i /= j => h[i].timestamp /= h[j].timestamp

\* current_price is the price of the first entry of the history and
\* previous_price, when set, the price of the second
HeadsThePriceHistory(listing) ==
  /\ listing.current_price = Some(listing.price_history[1].price)
  /\ listing.previous_price /= None =>
       /\ Len(listing.price_history) >= 2
       /\ listing.previous_price = Some(listing.price_history[2].price)

\* C30 (as stated): after add_price_record calls with pairwise distinct
\* timestamps on a listing that started without price and history,
\* current_price is the price of the first entry of price_history and
\* previous_price, when not None, the price of the second.
C30_CurrentIsFirstEntry ==
  \A l \in ListingIds :
    (listings[l].price_history /= <<>>
       /\ DistinctTimestamps(listings[l].price_history)) =>
      HeadsThePriceHistory(listings[l])

\* C30 (amended): the same when every call came with a timestamp later than
\* all the timestamps recorded before it.
C30_CurrentIsFirstEntryInOrder ==
  \A l \in ListingIds :
    (listings[l].price_history /= <<>> /\ in_order[l]) =>
      HeadsThePriceHistory(listings[l])

\* two prices recorded in time order: previous_price is the older one
C30_Witness ==
  /\ PriceCall
  /\ in_order[last.listing_id]
  /\ Len(After.price_history) = 2
  /\ After.previous_price /= None
  /\ After.previous_price /= After.current_price
  /\ HeadsThePriceHistory(After)

(* ---------------- claims about lists returned by the queries ---------- *)
\* C31 (as stated): a list returned by get_events_for_listing or
\* get_all_events is a snapshot: add_event and clear calls made after it was
\* returned do not change what it contains, for either query.
C31_ReturnedListIsSnapshot ==
  held /= None => Val(held).now = Val(held).taken

QueryOps ==
  {"get_events_for_listing", "get_all_events", "get_latest_event",
   "has_event_type", "count_events"}

\* C32: add_event for listing X leaves the answer of every query about any
\* other listing Y as it was (same events, same order), and a call of
\* get_events_for_listing, get_all_events, get_latest_event, has_event_type
\* or count_events leaves the global list and the index as they were, also
\* when it asks about a listing_id without events.
C32_QueriesAndOtherListings ==
  /\ AddEventCall =>
       \A y \in ListingIds \ {last.listing_id} :
         /\ \A t \in OptEventTypes :
              /\ \A n \in OptLimits :
                   get_events_for_listing(events_by_listing, y, t, n) =
                     get_events_for_listing(last.index_before, y, t, n)
              /\ get_latest_event(events_by_listing, y, t) =
                   get_latest_event(last.index_before, y, t)
              /\ count_events(events, events_by_listing, Some(y), t) =
                   count_events(last.events_before, last.index_before,
                                Some(y), t)
         /\ \A t \in EventTypes :
              has_event_type(events_by_listing, y, t) <=>
                has_event_type(last.index_before, y, t)
  /\ last.op \in QueryOps =>
       /\ events = last.events_before
       /\ events_by_listing = last.index_before
       /\ DOMAIN events_by_listing = DOMAIN last.index_before
       /\ listings = last.listings_before

\* the events of a listing without events are counted while the other
\* listing has one: the count is 0 and the index has no entry for it afterwards
C32_Witness ==
  /\ last.op = "count_events"
  /\ last.listing_id /= None
  /\ events /= <<>>
  /\ Val(last.listing_id) \notin DOMAIN last.index_before
  /\ Val(last.listing_id) \notin DOMAIN events_by_listing
  /\ last.result = 0
====
